---- MODULE Spec2Model ----
(***************************************************************************)
(* A model of the STM recipe of lhotse (lhotse/recipes/stm.py): the parser *)
(* of STM lines, the recording grouper, the supervision builder and the    *)
(* multi-file merger prepare_stm, with the command line entry that calls   *)
(* it (lhotse/bin/modes/recipes/stm.py) and the parallel variant           *)
(* prepare_stm_parallel; then the recipes prepare_mixer6                   *)
(* (lhotse/recipes/mixer6.py) and prepare_single_soapy_language            *)
(* (lhotse/recipes/soapies.py).                                            *)
(*                                                                         *)
(* Strings are sequences of one-character strings, so that the identifier  *)
(* derivations are computed character by character as the code computes    *)
(* them.  Times are integers counting ticks of 1e-4 second (the resolution *)
(* of round(end - beg, 4)); the comparisons with 0.01 s are made on ticks, *)
(* i.e. in exact arithmetic.                                               *)
(***************************************************************************)
EXTENDS Integers, Sequences, FiniteSets, TLC

VARIABLES
    permissive,     \* prepare_stm's argument `permissive`
    langs_given,    \* whether src_tgt_langs is a list (TRUE) or None (FALSE)
    stm_files,      \* the entries of the list stm_files the loop has reached
    pc,             \* the place the run has reached, "done" or "failed" at its end
    error,          \* the exception that ended the run, "none" otherwise
    sups,           \* prepare_stm's accumulated supervisions
    recos,          \* prepare_stm's accumulated recordings
    recoids,        \* prepare_stm's set of recording ids seen
    recos_i,        \* the loop variable recos_i
    sups_i,         \* the loop variable sups_i
    parsed,         \* number of STM files opened and parsed in this run
    probed,         \* number of calls of Recording.from_file in this run
    result,         \* the returned manifests, or NoResult
    cli,            \* whether the run was started by the command `stm`
    output_dir,     \* prepare_stm's argument `output_dir`
    written,        \* the files written into output_dir
    calls,          \* the calls of fix_manifests and of the validation, in order
    completion,     \* prepare_stm_parallel: the files in the order their jobs ended
    merge_i,        \* prepare_stm_parallel: number of results accumulated
    channels,       \* prepare_mixer6's argument `channels`
    sessions,       \* prepare_mixer6: the session ids of the list file, in order
    pcm_files,      \* prepare_mixer6: the paths under pcm_files that are a file
    transcripts,    \* prepare_mixer6: the transcript files the loop has reached
    m6_recordings,  \* prepare_mixer6's list `recordings`
    m6_supervisions, \* prepare_mixer6's list `supervisions`
    wavdir,         \* soapies: the names of the files of the audio directory
    dev_list,       \* soapies: the lines of the dev utterance-id list
    test_list,      \* soapies: the lines of the test utterance-id list
    xml,            \* soapies: the audio names of the utterances of the xml file
    uttids,         \* soapies: the variable `uttids`
    dev_uttids,     \* soapies: the set dev_uttids
    test_uttids,    \* soapies: the set test_uttids
    train_uttids,   \* soapies: the set train_uttids
    manifests       \* soapies: the splits built so far, in order

vars == << permissive, langs_given, stm_files, pc, error, sups, recos, recoids,
           recos_i, sups_i, parsed, probed, result, cli, output_dir, written,
           calls, completion, merge_i,
           channels, sessions, pcm_files, transcripts,
           m6_recordings, m6_supervisions,
           wavdir, dev_list, test_list, xml, uttids, dev_uttids, test_uttids,
           train_uttids, manifests >>

\* the state of prepare_mixer6
mixer6_vars == << channels, sessions, pcm_files, transcripts,
                  m6_recordings, m6_supervisions >>

\* the state of prepare_single_soapy_language
soapies_vars == << wavdir, dev_list, test_list, xml, uttids, dev_uttids,
                   test_uttids, train_uttids, manifests >>

\* no call of prepare_mixer6 is under way
NoMixer6 ==
    /\ channels = << >>
    /\ sessions = << >>
    /\ pcm_files = {}
    /\ transcripts = << >>
    /\ m6_recordings = << >>
    /\ m6_supervisions = << >>

\* no call of prepare_single_soapy_language is under way
NoSoapies ==
    /\ wavdir = {}
    /\ dev_list = << >>
    /\ test_list = << >>
    /\ xml = << >>
    /\ uttids = {}
    /\ dev_uttids = {}
    /\ test_uttids = {}
    /\ train_uttids = {}
    /\ manifests = << >>

----------------------------------------------------------------------------
(* Bounds of the model *)

\* the greatest number of STM files in the list given to prepare_stm
MaxFiles == 2

\* the greatest number of lines in all the STM files of a run together
MaxEntries == 2

\* the greatest number of lines of the session list of prepare_mixer6
MaxSessions == 2

\* the greatest length of the argument `channels` of prepare_mixer6
MaxChannels == 2

\* the greatest number of transcript files prepare_mixer6 finds
MaxTranscripts == 1

\* the greatest number of segments in all the transcripts of a run together
MaxSegments == 2

\* the greatest number of lines of an utterance-id list of the soapies corpus
MaxListLines == 2

----------------------------------------------------------------------------
(* Strings as sequences of characters *)

Digits == << "0", "1", "2", "3", "4", "5", "6", "7", "8", "9" >>

IsDigit(c) == \E k \in 1..10 : Digits[k] = c

DigitVal(c) == (CHOOSE k \in 1..10 : Digits[k] = c) - 1

\* str(n) for an integer n >= 0
RECURSIVE NatToStr(_)
NatToStr(n) == IF n < 10 THEN << Digits[n + 1] >>
               ELSE NatToStr(n \div 10) \o << Digits[(n % 10) + 1] >>

\* int(s) for a string of digits
RECURSIVE StrToNat(_)
StrToNat(s) == IF Len(s) = 0 THEN 0
               ELSE 10 * StrToNat(SubSeq(s, 1, Len(s) - 1)) + DigitVal(s[Len(s)])

AllDigits(s) == Len(s) > 0 /\ \A k \in 1..Len(s) : IsDigit(s[k])

\* the greatest index of character c in s, 0 when there is none (str.rfind)
LastIndexOf(s, c) ==
    IF \E k \in 1..Len(s) : s[k] = c
    THEN CHOOSE k \in 1..Len(s) : s[k] = c /\ \A m \in (k + 1)..Len(s) : s[m] # c
    ELSE 0

\* s.replace(a, b) for single characters
Replace(s, a, b) == [k \in 1..Len(s) |-> IF s[k] = a THEN b ELSE s[k]]

\* '_'.join(parts)
RECURSIVE JoinUnderscore(_)
JoinUnderscore(parts) ==
    IF Len(parts) = 0 THEN << >>
    ELSE IF Len(parts) = 1 THEN parts[1]
    ELSE parts[1] \o << "_" >> \o JoinUnderscore(Tail(parts))

\* the order of the characters the model uses, as their code points order them
CodePointOrder ==
    << ".", "/", "0", "1", "2", "3", "4", "5", "6", "7", "8", "9", "<", ">",
       "A", "B", "X", "_", "a", "b", "c", "d", "e", "f", "g", "h", "i", "l", "n",
       "o", "p", "r", "s", "t", "w", "y" >>

Ord(c) == CHOOSE k \in 1..Len(CodePointOrder) : CodePointOrder[k] = c

\* s < t as Python compares strings
RECURSIVE StrLess(_, _)
StrLess(s, t) ==
    IF Len(t) = 0 THEN FALSE
    ELSE IF Len(s) = 0 THEN TRUE
    ELSE IF s[1] = t[1] THEN StrLess(Tail(s), Tail(t))
    ELSE Ord(s[1]) < Ord(t[1])

----------------------------------------------------------------------------
(* The values the parser reads *)

\* Python's None, which is no string
None == << "None" >>

\* float(tok), in ticks, for the decimal notations digits[.digits] of at most
\* four decimals; any other token of the model raises ValueError
IsFloat(tok) ==
    LET d == LastIndexOf(tok, ".")
        ip == IF d = 0 THEN tok ELSE SubSeq(tok, 1, d - 1)
        fp == IF d = 0 THEN << >> ELSE SubSeq(tok, d + 1, Len(tok))
    IN  /\ Len(ip) + Len(fp) > 0
        /\ \A k \in 1..Len(ip) : IsDigit(ip[k])
        /\ \A k \in 1..Len(fp) : IsDigit(fp[k])
        /\ Len(fp) <= 4

RECURSIVE PadRight(_, _)
PadRight(s, n) == IF Len(s) >= n THEN s ELSE PadRight(s \o << "0" >>, n)

FloatTicks(tok) ==
    LET d == LastIndexOf(tok, ".")
        ip == IF d = 0 THEN tok ELSE SubSeq(tok, 1, d - 1)
        fp == IF d = 0 THEN << >> ELSE SubSeq(tok, d + 1, Len(tok))
    IN  10000 * StrToNat(ip) + StrToNat(PadRight(fp, 4))

\* lines 42-47: "A" -> 0, "B" -> 1, else int(chn)
ChannelOk(tok) == tok = << "A" >> \/ tok = << "B" >> \/ AllDigits(tok)

Channel(tok) ==
    IF tok = << "A" >> THEN 0
    ELSE IF tok = << "B" >> THEN 1
    ELSE StrToNat(tok)

\* the threshold 0.01 s of lines 49 and 91, in ticks
MinDurationTicks == 100

\* lines 33-63 for one line, given as the tokens l.strip().split() yields:
\* "error" (an exception leaves the function), "skip" (line 52) or "ok"
ParseLine(l) ==
    IF Len(l) < 6 THEN [status |-> "error"]
    ELSE IF ~ChannelOk(l[2]) THEN [status |-> "error"]
    ELSE IF ~(IsFloat(l[4]) /\ IsFloat(l[5])) THEN [status |-> "error"]
    ELSE IF FloatTicks(l[5]) - FloatTicks(l[4]) < MinDurationTicks
         THEN [status |-> "skip"]
    ELSE [status |-> "ok",
          entry  |-> [wav |-> l[1], chn |-> Channel(l[2]), spk |-> l[3],
                      beg |-> FloatTicks(l[4]), end |-> FloatTicks(l[5]),
                      lbl |-> l[6], txt |-> SubSeq(l, 7, Len(l))]]

\* lines 28-63: the list stm_entries, or an error at the first line that raises
RECURSIVE ParseLines(_, _)
ParseLines(lines, acc) ==
    IF Len(lines) = 0 THEN [err |-> "none", entries |-> acc]
    ELSE LET r == ParseLine(Head(lines))
         IN  IF r.status = "error" THEN [err |-> "ValueError", entries |-> acc]
             ELSE IF r.status = "skip" THEN ParseLines(Tail(lines), acc)
             ELSE ParseLines(Tail(lines), Append(acc, r.entry))

----------------------------------------------------------------------------
(* Identifiers *)

\* str(Path(p).with_suffix("")) for a normalised path p with a file name
WithSuffixEmpty(p) ==
    LET slash == LastIndexOf(p, "/")
        name  == SubSeq(p, slash + 1, Len(p))
        dot   == LastIndexOf(name, ".")
    IN  IF 1 < dot /\ dot < Len(name) THEN SubSeq(p, 1, slash + dot - 1) ELSE p

\* s[1:]
DropFirst(s) == IF Len(s) = 0 THEN s ELSE Tail(s)

\* lines 69 and 87
RecordingId(wav, chn) ==
    DropFirst(Replace(WithSuffixEmpty(wav), "/", "_")) \o << "_" >> \o NatToStr(chn)

\* the digits s of a number n >= 0 as format(n, '0<width>d') pads them
RECURSIVE ZeroPad(_, _)
ZeroPad(s, width) == IF Len(s) >= width THEN s ELSE ZeroPad(<< "0" >> \o s, width)

\* format(beg, '0.3f') for beg >= 0: the seconds with three decimals, rounded
\* to the nearest millisecond (the model has no start time that lies halfway
\* between two milliseconds, where the binary value of the float decides)
Format3f(beg) ==
    LET ms == (beg + 5) \div 10
    IN  NatToStr(ms \div 1000) \o << "." >> \o ZeroPad(NatToStr(ms % 1000), 3)

\* s.replace('.', '')
RemoveDots(s) == SelectSeq(s, LAMBDA c : c # ".")

\* line 89 with the width of the padding off by one
BegStrNineDigits(beg) == ZeroPad(NatToStr(StrToNat(RemoveDots(Format3f(beg)))), 9)

\* line 89 without the padding
BegStrUnpadded(beg) == NatToStr(StrToNat(RemoveDots(Format3f(beg))))

\* line 89
BegStr(beg) == ZeroPad(NatToStr(StrToNat(RemoveDots(Format3f(beg)))), 10)

\* line 98, for tgt a string
UttId(utt, recoid, tgt) ==
    JoinUnderscore(<< utt.spk, NatToStr(utt.chn), recoid, tgt, BegStr(utt.beg) >>)

----------------------------------------------------------------------------
(* The library services the recipe calls (lhotse.audio, lhotse.supervision, *)
(* lhotse.qa), as section 6 of the specification describes them            *)

\* Recording.from_file: the duration in ticks the audio probe reports
AudioDuration(wav) == 40000

\* the path of the audio file of the model that cannot be read
Gone == << "g", "o", "n", "e" >>

\* Recording.from_file raises on an audio file it cannot read
ProbeRaises(wav) == wav = Gone

\* whether a sequence of manifests holds an id twice
HasDuplicateIds(items) ==
    \E a, b \in 1..Len(items) : a # b /\ items[a].id = items[b].id

IdsOf(items) == { items[k].id : k \in 1..Len(items) }

\* RecordingSet.from_recordings and SupervisionSet.from_segments build a
\* container that is unique by id: they raise on a sequence that is not
FromItemsRaises(items) == HasDuplicateIds(items)

\* fix_manifests: supervisions without their recording and recordings without
\* a supervision are removed, supervisions are clipped to the recording
FixManifests(recordings, supervisions) ==
    LET DurationOf(rid) ==
            recordings[CHOOSE k \in 1..Len(recordings) : recordings[k].id = rid].duration
        keptSups == SelectSeq(supervisions,
                        LAMBDA x : /\ x.recording_id \in IdsOf(recordings)
                                   /\ x.start < DurationOf(x.recording_id))
        Clip(x) == IF x.start + x.duration > DurationOf(x.recording_id)
                   THEN [x EXCEPT !.duration = DurationOf(x.recording_id) - x.start]
                   ELSE x
        keptRecs == SelectSeq(recordings,
                        LAMBDA r : \E k \in 1..Len(keptSups) :
                                       keptSups[k].recording_id = r.id)
    IN  [recordings   |-> keptRecs,
         supervisions |-> [k \in 1..Len(keptSups) |-> Clip(keptSups[k])]]

\* validate_recordings_and_supervisions: TRUE when it raises nothing
Validates(recordings, supervisions) ==
    \A k \in 1..Len(supervisions) :
        /\ supervisions[k].duration > 0
        /\ \E m \in 1..Len(recordings) :
              /\ recordings[m].id = supervisions[k].recording_id
              /\ supervisions[k].start + supervisions[k].duration
                     <= recordings[m].duration

----------------------------------------------------------------------------
(* stm_to_supervisions_and_recordings *)

\* line 65
GroupKey(x) == << x.wav, x.chn >>

KeyLess(k1, k2) == StrLess(k1[1], k2[1]) \/ (k1[1] = k2[1] /\ k1[2] < k2[2])

\* line 66: the keys of groupby(sorted(stm_entries, key), key), in order
RECURSIVE SortKeys(_)
SortKeys(keys) ==
    IF keys = {} THEN << >>
    ELSE LET least == CHOOSE k \in keys : \A o \in keys \ {k} : KeyLess(k, o)
         IN  << least >> \o SortKeys(keys \ {least})

\* line 66 without the sort: the keys in the order the lines first name them
GroupKeysInLineOrder(stm_entries) ==
    LET numbered == [k \in 1..Len(stm_entries) |-> << k, GroupKey(stm_entries[k]) >>]
        firsts == SelectSeq(numbered,
                      LAMBDA p : \A j \in 1..(p[1] - 1) : GroupKey(stm_entries[j]) # p[2])
    IN  [k \in 1..Len(firsts) |-> firsts[k][2]]

GroupKeys(stm_entries) ==
    SortKeys({ GroupKey(stm_entries[k]) : k \in 1..Len(stm_entries) })

\* lines 67-81: one recording for each group, restricted to the group's channel
MakeRecordings(stm_entries) ==
    LET keys == GroupKeys(stm_entries)
    IN  [k \in 1..Len(keys) |->
            [id          |-> RecordingId(keys[k][1], keys[k][2]),
             path        |-> keys[k][1],
             channel_ids |-> << keys[k][2] >>,
             duration    |-> AudioDuration(keys[k][1])]]

\* lines 106-118 with the duration rounded to 3 decimal places
SegmentRoundedToMillis(utt, uttid, recoid, src, tgt) ==
    [id           |-> uttid,
     recording_id |-> recoid,
     start        |-> utt.beg,
     duration     |-> ((utt.end - utt.beg + 5) \div 10) * 10,
     channel      |-> utt.chn,
     language     |-> tgt,
     speaker      |-> utt.spk,
     text         |-> utt.txt,
     custom       |-> [src_lang |-> src, tgt_lang |-> tgt]]

\* lines 106-118: the supervision of one entry; round(end - beg, 4) of two
\* times of at most four decimals is their difference in ticks
Segment(utt, uttid, recoid, src, tgt) ==
    [id           |-> uttid,
     recording_id |-> recoid,
     start        |-> utt.beg,
     duration     |-> utt.end - utt.beg,
     channel      |-> utt.chn,
     language     |-> tgt,
     speaker      |-> utt.spk,
     text         |-> utt.txt,
     custom       |-> [src_lang |-> src, tgt_lang |-> tgt]]

\* lines 84-118: the list supervisions and the set utts, or the exception
RECURSIVE BuildSupervisions(_, _, _, _, _, _)
BuildSupervisions(entries, src, tgt, perm, utts, acc) ==
    IF Len(entries) = 0 THEN [err |-> "none", supervisions |-> acc, utts |-> utts]
    ELSE
      LET utt    == Head(entries)
          recoid == RecordingId(utt.wav, utt.chn)
          duration == utt.end - utt.beg
      IN  IF duration <= MinDurationTicks
          THEN IF perm
               THEN BuildSupervisions(Tail(entries), src, tgt, perm, utts, acc)
               ELSE [err |-> "ValueError", supervisions |-> acc, utts |-> utts]
          ELSE IF tgt = None
          THEN [err |-> "TypeError", supervisions |-> acc, utts |-> utts]
          ELSE
            LET uttid == UttId(utt, recoid, tgt)
            IN  IF uttid \in utts
                THEN IF perm
                     THEN BuildSupervisions(Tail(entries), src, tgt, perm, utts, acc)
                     ELSE [err |-> "ValueError", supervisions |-> acc, utts |-> utts]
                ELSE BuildSupervisions(Tail(entries), src, tgt, perm,
                        utts \cup {uttid},
                        Append(acc, Segment(utt, uttid, recoid, src, tgt)))

\* the reconciler calls a per-file call makes: lines 120-121
FixCall == << "fix_manifests", "file" >>
ValidateCall == << "validate_recordings_and_supervisions", "file" >>

\* the element of a set of one element: The({ e(x) : x \in { v } }) is e(v)
\* with v computed once
The(S) == CHOOSE x \in S : TRUE

\* lines 27-122 on the lines of one file: the pair returned, or the exception
\* that leaves the function; probed counts the calls of Recording.from_file,
\* grouped is the list recordings of line 81, built the list supervisions of
\* line 118, calls the calls of lines 120-121 that were made
StmToSupervisionsAndRecordings(lines, src, tgt, perm) ==
    LET failure(e, n, g, b, c) ==
            [err |-> e, probed |-> n, grouped |-> g, built |-> b, calls |-> c,
             recordings |-> << >>, supervisions |-> << >>]
        \* lines 119-122
        Reconciled(recordings, supervisions, fixed) ==
            IF ~Validates(fixed.recordings, fixed.supervisions)
            THEN failure("ValidationError", Len(recordings), recordings, supervisions,
                         << FixCall, ValidateCall >>)
            ELSE [err          |-> "none",
                  probed       |-> Len(recordings),
                  grouped      |-> recordings,
                  built        |-> supervisions,
                  calls        |-> << FixCall, ValidateCall >>,
                  recordings   |-> fixed.recordings,
                  supervisions |-> fixed.supervisions]
        \* lines 84-122
        Built(recordings, b) ==
            IF b.err # "none"
            THEN failure(b.err, Len(recordings), recordings, b.supervisions, << >>)
            ELSE IF FromItemsRaises(b.supervisions)
            THEN failure("AssertionError", Len(recordings), recordings, b.supervisions,
                         << >>)
            ELSE The({ Reconciled(recordings, b.supervisions, fixed) :
                       fixed \in { FixManifests(recordings, b.supervisions) } })
        \* lines 67-122
        Grouped(stm_entries, recordings) ==
            LET unreadable == { k \in 1..Len(recordings) : ProbeRaises(recordings[k].path) }
            IN  IF unreadable # {}
                THEN LET first == CHOOSE k \in unreadable : \A j \in unreadable : k <= j
                     IN  failure("AudioError", first, SubSeq(recordings, 1, first - 1),
                                 << >>, << >>)
                ELSE IF FromItemsRaises(recordings)
                THEN failure("AssertionError", Len(recordings), recordings, << >>, << >>)
                ELSE The({ Built(recordings, b) :
                           b \in { BuildSupervisions(stm_entries, src, tgt, perm, {}, << >>) } })
        \* lines 65-122
        Parsed(p) ==
            IF p.err # "none" THEN failure(p.err, 0, << >>, << >>, << >>)
            ELSE The({ Grouped(p.entries, recordings) :
                       recordings \in { MakeRecordings(p.entries) @@ << >> } })
    IN  The({ Parsed(p) : p \in { ParseLines(lines, << >>) } })

----------------------------------------------------------------------------
(* The inputs of the model *)

Call1  == << "c", "a", "l", "l", "1" >>
Dall1  == << "d", "a", "l", "l", "1" >>
Spk1   == << "s", "p", "k", "1" >>
Spk2   == << "s", "p", "k", "2" >>
Label  == << "<", "l", "a", "b", "e", "l", ">" >>
Hello  == << "h", "e", "l", "l", "o" >>
World  == << "w", "o", "r", "l", "d" >>
Bye    == << "b", "y", "e" >>

\* "call1 A spk1 1.000 3.500 <label> hello world"
LineScenario ==
    << Call1, << "A" >>, Spk1, << "1", ".", "0", "0", "0" >>,
       << "3", ".", "5", "0", "0" >>, Label, Hello, World >>

\* the same speaker, channel, audio and start time with another end and text
LineSameId ==
    << Call1, << "A" >>, Spk1, << "1", ".", "0", "0", "0" >>,
       << "3", ".", "0", "0", "0" >>, Label, Bye >>

\* "call1 A spk1 3.495 3.500 <label> hello": 0.005 s long
LineShort ==
    << Call1, << "A" >>, Spk1, << "3", ".", "4", "9", "5" >>,
       << "3", ".", "5", "0", "0" >>, Label, Hello >>

\* "call1 B spk2 0.000 0.010 <label>": 0.01 s long (0.010 - 0.000 is 0.01 as
\* floats too), no text
LineThreshold ==
    << Call1, << "B" >>, Spk2, << "0", ".", "0", "0", "0" >>,
       << "0", ".", "0", "1", "0" >>, Label >>

\* another speaker of the same audio and channel, earlier
LineSpk2 ==
    << Call1, << "A" >>, Spk2, << "0", ".", "5" >>, << "0", ".", "9" >>, Label, Hello >>

\* "call1 0 spk1 0.5004 0.9 <label> bye": the speaker, audio and channel of
\* LineScenario, earlier, the start not a whole number of milliseconds
LineEarlier ==
    << Call1, << "0" >>, Spk1, << "0", ".", "5", "0", "0", "4" >>, << "0", ".", "9" >>,
       Label, Bye >>

\* "call1 1 spk2 1.0 2.0 <label> world": the other channel of the same audio
LineChannelB ==
    << Call1, << "1" >>, Spk2, << "1", ".", "0" >>, << "2", ".", "0" >>, Label, World >>

\* another audio file, whose path differs in its first character only
LineDall1 ==
    << Dall1, << "A" >>, Spk2, << "1", ".", "5" >>, << "2", ".", "5" >>, Label, Hello >>

\* the lines the STM files of the model are made of; a file's content is the
\* sequence of the numbers of its lines
LineText == << LineScenario, LineSameId, LineShort, LineThreshold, LineSpk2,
               LineEarlier, LineDall1, LineChannelB >>

Lines == DOMAIN LineText

\* "call1 A spk2 3.9 4.5 <label> hello": ends after the end of call1
LineBeyond ==
    << Call1, << "A" >>, Spk2, << "3", ".", "9" >>, << "4", ".", "5" >>, Label, Hello >>

\* "call1 0 spk1 0.5001 0.9 <label> hello": the speaker, audio and channel of
\* LineEarlier, starting 0.3 ms before it
LineSubMillis ==
    << Call1, << "0" >>, Spk1, << "0", ".", "5", "0", "0", "1" >>, << "0", ".", "9" >>,
       Label, Hello >>

\* "call1 A spk1 1.000 3.500": five fields
LineFiveFields ==
    << Call1, << "A" >>, Spk1, << "1", ".", "0", "0", "0" >>,
       << "3", ".", "5", "0", "0" >> >>

\* "call1 X spk1 1.000 3.500 <label> hello": no channel X
LineBadChannel ==
    << Call1, << "X" >>, Spk1, << "1", ".", "0", "0", "0" >>,
       << "3", ".", "5", "0", "0" >>, Label, Hello >>

\* "call1 A spk1 1.000 end <label> hello": no end time
LineBadFloat ==
    << Call1, << "A" >>, Spk1, << "1", ".", "0", "0", "0" >>,
       << "e", "n", "d" >>, Label, Hello >>

\* "gone A spk1 1.000 3.500 <label> hello": the audio cannot be read
LineGone ==
    << Gone, << "A" >>, Spk1, << "1", ".", "0", "0", "0" >>,
       << "3", ".", "5", "0", "0" >>, Label, Hello >>

\* the lines of the files with faults
FaultText == << LineBeyond, LineSubMillis, LineFiveFields, LineBadChannel,
                LineBadFloat, LineGone >>

AllText == LineText \o FaultText

\* the lines the STM files of the runs with faults are made of: LineScenario,
\* LineEarlier and the lines of FaultText
FaultLines == { 1, 6 } \cup (DOMAIN AllText \ DOMAIN LineText)

\* the lines the STM files given to prepare_stm_parallel are made of:
\* LineScenario, LineDall1, LineChannelB and LineFiveFields
ParallelLines == { 1, 7, 8, 11 }

TextOf(content) == [k \in 1..Len(content) |-> AllText[content[k]]]

\* the (src, tgt) pairs of src_tgt_langs
LangPairs == { << << "e", "s" >>, << "e", "n" >> >>,
               << << "e", "s" >>, << "f", "r" >> >> }

RECURSIVE LinesRead(_)
LinesRead(files) ==
    IF Len(files) = 0 THEN 0 ELSE Len(Head(files).lines) + LinesRead(Tail(files))

NoResult == [recordings |-> << "none" >>, supervisions |-> << "none" >>]

----------------------------------------------------------------------------
(* prepare_stm *)

\* line 150 with the operands exchanged
AccumulateSupervisionsInFront(all, new) == new \o all

\* line 150
AccumulateSupervisions(all, new) == all \o new

\* line 151 without the filter on the ids seen
AccumulateRecordingsUnfiltered(all, new, seen) == all \o new

\* line 151
AccumulateRecordings(all, new, seen) ==
    all \o SelectSeq(new, LAMBDA r : r.id \notin seen)

\* lines 152-153
AccumulateIds(seen, new) == seen \cup IdsOf(new)

\* lines 156-161 returning the last file's recordings for the merged ones
ManifestsOfLastFile ==
    LET fixed == FixManifests(recos, sups)
    IN  [recordings |-> recos_i, supervisions |-> fixed.supervisions]

\* lines 156-161: the manifests prepare_stm returns
Manifests ==
    LET fixed == FixManifests(recos, sups)
    IN  [recordings |-> fixed.recordings, supervisions |-> fixed.supervisions]

\* lines 145-149: the call passes no permissive argument, so the default
\* True of line 27 is in force whatever prepare_stm was given
CallOfLine145(lines, src, tgt) ==
    StmToSupervisionsAndRecordings(TextOf(lines), src, tgt, TRUE)

\* every content an STM file made of the lines L can have
ContentsOf(L) == UNION { [1..n -> L] : n \in 0..MaxEntries }

\* every content an STM file of the model can have, and every (src, tgt)
AllContents == ContentsOf(Lines) \cup ContentsOf(FaultLines) \cup ContentsOf(ParallelLines)

AllLangs == LangPairs \cup { << None, None >> }

\* the outcome of line 145 for each file of the model, tabulated (f @@ << >>
\* is f, as an explicit table)
PerFile ==
    [lines \in AllContents, lg \in AllLangs |-> CallOfLine145(lines, lg[1], lg[2])]
        @@ << >>

\* the directory the manifests are written to, when one is given
OutDir == << "o", "u", "t" >>

\* line 130: the default of the parameter `name`
Name == << "s", "t", "m" >>

\* lines 168-169: the two files of a run named n
OutputFiles(n) ==
    { << "r", "e", "c", "o", "r", "d", "i", "n", "g", "s", "_" >> \o n
          \o << ".", "j", "s", "o", "n", "l", ".", "g", "z" >>,
      << "s", "u", "p", "e", "r", "v", "i", "s", "i", "o", "n", "s", "_" >> \o n
          \o << ".", "j", "s", "o", "n", "l", ".", "g", "z" >> }

\* the reconciler calls of lines 156-157
FixMerged == << "fix_manifests", "merged" >>
ValidateMerged == << "validate_recordings_and_supervisions", "merged" >>

Init ==
    /\ permissive \in BOOLEAN
    /\ langs_given \in BOOLEAN
    /\ stm_files = << >>
    /\ pc = "loop"
    /\ error = "none"
    /\ sups = << >>
    /\ recos = << >>
    /\ recoids = {}
    /\ recos_i = << >>
    /\ sups_i = << >>
    /\ parsed = 0
    /\ probed = 0
    /\ result = NoResult
    /\ cli = FALSE
    /\ output_dir = OutDir
    /\ written = {}
    /\ calls = << >>
    /\ completion = << >>
    /\ merge_i = 0
    /\ NoMixer6
    /\ NoSoapies

\* the (src, tgt) of the next file: lines 141-144
NextLangs == IF langs_given THEN LangPairs ELSE { << None, None >> }

\* the contents the next STM file of the list may have, made of the lines L
NextContentsOf(L) ==
    UNION { [1..n -> L] : n \in 0..(MaxEntries - LinesRead(stm_files)) }

NextContents == NextContentsOf(Lines)

\* lines 137-139 skipping the missing file instead of raising
MissingFileSkipped ==
    /\ pc = "loop"
    /\ Len(stm_files) < MaxFiles
    /\ \E lg \in NextLangs :
          stm_files' = Append(stm_files,
              [exists |-> FALSE, lines |-> << >>, src |-> lg[1], tgt |-> lg[2]])
    /\ UNCHANGED << permissive, langs_given, pc, error, sups, recos, recoids,
                    recos_i, sups_i, parsed, probed, result, cli, output_dir,
                    written, calls, completion, merge_i,
                    mixer6_vars, soapies_vars >>

\* lines 137-139: the next file of the list does not exist
MissingFile ==
    /\ pc = "loop"
    /\ Len(stm_files) < MaxFiles
    /\ \E lg \in NextLangs :
          stm_files' = Append(stm_files,
              [exists |-> FALSE, lines |-> << >>, src |-> lg[1], tgt |-> lg[2]])
    /\ pc' = "failed"
    /\ error' = "ValueError: does not exist"
    /\ UNCHANGED << permissive, langs_given, sups, recos, recoids, recos_i,
                    sups_i, parsed, probed, result, cli, output_dir, written,
                    calls, completion, merge_i,
                    mixer6_vars, soapies_vars >>

\* lines 137-153 writing the manifests accumulated so far in each iteration
ProcessFileDumping(L) ==
    /\ pc = "loop"
    /\ Len(stm_files) < MaxFiles
    /\ \E lg \in NextLangs, lines \in NextContentsOf(L) :
          LET r == PerFile[lines, lg]
          IN  /\ r.err = "none"
              /\ stm_files' = Append(stm_files,
                     [exists |-> TRUE, lines |-> lines, src |-> lg[1], tgt |-> lg[2]])
              /\ recos_i' = r.recordings
              /\ sups_i' = r.supervisions
              /\ sups' = AccumulateSupervisions(sups, r.supervisions)
              /\ recos' = AccumulateRecordings(recos, r.recordings, recoids)
              /\ recoids' = AccumulateIds(recoids, r.recordings)
              /\ parsed' = parsed + 1
              /\ probed' = probed + r.probed
              /\ calls' = calls \o r.calls
    /\ written' = IF output_dir = None THEN written ELSE OutputFiles(Name)
    /\ UNCHANGED << permissive, langs_given, pc, error, result, cli, output_dir,
                    completion, merge_i,
                    mixer6_vars, soapies_vars >>

\* lines 137-153 reconciling the accumulated pair in each iteration
ProcessFileReconciling(L) ==
    /\ pc = "loop"
    /\ Len(stm_files) < MaxFiles
    /\ \E lg \in NextLangs, lines \in NextContentsOf(L) :
          LET r == PerFile[lines, lg]
          IN  /\ r.err = "none"
              /\ stm_files' = Append(stm_files,
                     [exists |-> TRUE, lines |-> lines, src |-> lg[1], tgt |-> lg[2]])
              /\ recos_i' = r.recordings
              /\ sups_i' = r.supervisions
              /\ sups' = AccumulateSupervisions(sups, r.supervisions)
              /\ recos' = AccumulateRecordings(recos, r.recordings, recoids)
              /\ recoids' = AccumulateIds(recoids, r.recordings)
              /\ parsed' = parsed + 1
              /\ probed' = probed + r.probed
              /\ calls' = calls \o r.calls \o << FixMerged, ValidateMerged >>
    /\ UNCHANGED << permissive, langs_given, pc, error, result, cli, output_dir,
                    written, completion, merge_i,
                    mixer6_vars, soapies_vars >>

\* lines 137-153: one iteration of the loop that raises nothing, on a file
\* made of the lines L
ProcessFileOf(L) ==
    /\ pc = "loop"
    /\ Len(stm_files) < MaxFiles
    /\ \E lg \in NextLangs, lines \in NextContentsOf(L) :
          LET r == PerFile[lines, lg]
          IN  /\ r.err = "none"
              /\ stm_files' = Append(stm_files,
                     [exists |-> TRUE, lines |-> lines, src |-> lg[1], tgt |-> lg[2]])
              /\ recos_i' = r.recordings
              /\ sups_i' = r.supervisions
              /\ sups' = AccumulateSupervisions(sups, r.supervisions)
              /\ recos' = AccumulateRecordings(recos, r.recordings, recoids)
              /\ recoids' = AccumulateIds(recoids, r.recordings)
              /\ parsed' = parsed + 1
              /\ probed' = probed + r.probed
              /\ calls' = calls \o r.calls
    /\ UNCHANGED << permissive, langs_given, pc, error, result, cli, output_dir,
                    written, completion, merge_i,
                    mixer6_vars, soapies_vars >>

ProcessFile == ProcessFileOf(Lines)

\* lines 137-149: stm_to_supervisions_and_recordings raises, on a file made
\* of the lines L
ProcessFileRaisesOf(L) ==
    /\ pc = "loop"
    /\ Len(stm_files) < MaxFiles
    /\ \E lg \in NextLangs, lines \in NextContentsOf(L) :
          LET r == PerFile[lines, lg]
          IN  /\ r.err # "none"
              /\ stm_files' = Append(stm_files,
                     [exists |-> TRUE, lines |-> lines, src |-> lg[1], tgt |-> lg[2]])
              /\ pc' = "failed"
              /\ error' = r.err
              /\ parsed' = parsed + 1
              /\ probed' = probed + r.probed
              /\ calls' = calls \o r.calls
    /\ UNCHANGED << permissive, langs_given, sups, recos, recoids, recos_i,
                    sups_i, result, cli, output_dir, written, completion, merge_i,
                    mixer6_vars, soapies_vars >>

ProcessFileRaises == ProcessFileRaisesOf(Lines)

\* lines 155-171: the accumulated pair is reconciled, validated, written and
\* returned
ReturnManifests ==
    /\ calls' = calls \o << FixMerged, ValidateMerged >>
    /\ IF Validates(FixManifests(recos, sups).recordings,
                    FixManifests(recos, sups).supervisions)
       THEN /\ pc' = "done"
            /\ result' = Manifests
            /\ error' = "none"
            /\ written' = IF output_dir = None THEN written ELSE OutputFiles(Name)
       ELSE /\ pc' = "failed"
            /\ error' = "ValidationError"
            /\ result' = result
            /\ written' = written
    /\ UNCHANGED << permissive, langs_given, stm_files, sups, recos, recoids,
                    recos_i, sups_i, parsed, probed, cli, output_dir, completion,
                    merge_i,
                    mixer6_vars, soapies_vars >>

\* lines 155-171: the list is exhausted
Finish == pc = "loop" /\ ReturnManifests

Next == MissingFile \/ ProcessFile \/ ProcessFileRaises \/ Finish

Spec == Init /\ [][Next]_vars

----------------------------------------------------------------------------
(* The runs on files with faults, started by a call of prepare_stm or by   *)
(* the command `lhotse prepare stm`                                        *)

\* lines 125-131 of stm.py: the parameters of prepare_stm
PrepareStmParameters ==
    { "stm_files", "output_dir", "src_tgt_langs", "permissive", "name" }

\* lines 37-42 of bin/modes/recipes/stm.py: the keywords of the call
StmCommandKeywords == { "output_dir", "src_tgt_langs", "prefix" }

KeywordError == "TypeError: unexpected keyword argument"

\* the command is given STMS, OUTPUT_DIR and --langs; a call of prepare_stm
\* has output_dir or not, src_tgt_langs or not, and the default of permissive
InitFaults ==
    /\ cli \in BOOLEAN
    /\ permissive = TRUE
    /\ langs_given \in (IF cli THEN { TRUE } ELSE BOOLEAN)
    /\ output_dir \in (IF cli THEN { OutDir } ELSE { None, OutDir })
    /\ pc = (IF cli THEN "cli" ELSE "loop")
    /\ stm_files = << >>
    /\ error = "none"
    /\ sups = << >>
    /\ recos = << >>
    /\ recoids = {}
    /\ recos_i = << >>
    /\ sups_i = << >>
    /\ parsed = 0
    /\ probed = 0
    /\ result = NoResult
    /\ written = {}
    /\ calls = << >>
    /\ completion = << >>
    /\ merge_i = 0
    /\ NoMixer6
    /\ NoSoapies

\* lines 28-42 of bin/modes/recipes/stm.py: the command splits its arguments
\* and calls prepare_stm, which Python enters only if every keyword of the
\* call is one of its parameters
StmCommand ==
    /\ pc = "cli"
    /\ IF StmCommandKeywords \subseteq PrepareStmParameters
       THEN pc' = "loop" /\ error' = error
       ELSE pc' = "failed" /\ error' = KeywordError
    /\ UNCHANGED << permissive, langs_given, stm_files, sups, recos, recoids,
                    recos_i, sups_i, parsed, probed, result, cli, output_dir,
                    written, calls, completion, merge_i,
                    mixer6_vars, soapies_vars >>

ProcessFaultyFile == ProcessFileOf(FaultLines)

ProcessFaultyFileRaises == ProcessFileRaisesOf(FaultLines)

NextFaults ==
    StmCommand \/ MissingFile \/ ProcessFaultyFile \/ ProcessFaultyFileRaises \/ Finish

SpecFaults == InitFaults /\ [][NextFaults]_vars

----------------------------------------------------------------------------
(* prepare_stm as a function of the list of files *)

\* lines 156-161 on an accumulated pair
ManifestsOf(recordings, supervisions) ==
    LET fixed == FixManifests(recordings, supervisions)
    IN  [recordings |-> fixed.recordings, supervisions |-> fixed.supervisions]

\* lines 136-153 on the files from the k-th on
RECURSIVE Accumulate(_, _, _, _, _)
Accumulate(files, k, s, r, ids) ==
    IF k > Len(files) THEN [err |-> "none", sups |-> s, recos |-> r]
    ELSE IF ~files[k].exists
    THEN [err |-> "ValueError: does not exist", sups |-> s, recos |-> r]
    ELSE LET x == PerFile[files[k].lines, << files[k].src, files[k].tgt >>]
         IN  IF x.err # "none" THEN [err |-> x.err, sups |-> s, recos |-> r]
             ELSE Accumulate(files, k + 1,
                             AccumulateSupervisions(s, x.supervisions),
                             AccumulateRecordings(r, x.recordings, ids),
                             AccumulateIds(ids, x.recordings))

\* lines 133-171: what prepare_stm returns on a list of files, or the
\* exception that leaves it
PrepareStm(files) ==
    LET a == Accumulate(files, 1, << >>, << >>, {})
        m == ManifestsOf(a.recos, a.sups)
    IN  IF a.err # "none" THEN [err |-> a.err, result |-> NoResult]
        ELSE IF ~Validates(m.recordings, m.supervisions)
        THEN [err |-> "ValidationError", result |-> NoResult]
        ELSE [err |-> "none", result |-> m]

----------------------------------------------------------------------------
(* prepare_stm_parallel, as section 5 of the specification describes it:   *)
(* the per-file processing of the files is fanned out to jobs, and the     *)
(* accumulation runs in input file order once every job has ended          *)

\* the files prepare_stm_parallel may be given when budget lines are left
FilesWithin(budget) ==
    { [exists |-> TRUE, lines |-> c, src |-> lg[1], tgt |-> lg[2]] :
        c \in { c \in ContentsOf(ParallelLines) : Len(c) <= budget }, lg \in LangPairs }

\* the lists of n files that hold budget lines or fewer together
RECURSIVE FileLists(_, _)
FileLists(n, budget) ==
    IF n = 0 THEN { << >> }
    ELSE UNION { { << f >> \o rest : rest \in FileLists(n - 1, budget - Len(f.lines)) } :
                 f \in FilesWithin(budget) }

\* prepare_stm_parallel is called, as the command stm_parallel calls it, with
\* a list of files, their language pairs and an output directory
InitParallel ==
    /\ stm_files \in UNION { FileLists(n, MaxEntries) : n \in 1..MaxFiles }
    /\ pc = "jobs"
    /\ cli = FALSE
    /\ permissive = TRUE
    /\ langs_given = TRUE
    /\ output_dir = OutDir
    /\ error = "none"
    /\ sups = << >>
    /\ recos = << >>
    /\ recoids = {}
    /\ recos_i = << >>
    /\ sups_i = << >>
    /\ parsed = 0
    /\ probed = 0
    /\ result = NoResult
    /\ written = {}
    /\ calls = << >>
    /\ completion = << >>
    /\ merge_i = 0
    /\ NoMixer6
    /\ NoSoapies

\* what the job of the i-th file computes
JobOutcome(i) == PerFile[stm_files[i].lines, << stm_files[i].src, stm_files[i].tgt >>]

\* the job of some file ends; it has read and written nothing but its own
\* file and its own result
JobEnds ==
    /\ pc = "jobs"
    /\ \E i \in 1..Len(stm_files) :
          /\ \A k \in 1..Len(completion) : completion[k] # i
          /\ completion' = Append(completion, i)
          /\ parsed' = parsed + 1
          /\ probed' = probed + JobOutcome(i).probed
          /\ calls' = calls \o JobOutcome(i).calls
    /\ UNCHANGED << permissive, langs_given, stm_files, pc, error, sups, recos,
                    recoids, recos_i, sups_i, result, cli, output_dir, written,
                    merge_i,
                    mixer6_vars, soapies_vars >>

\* every job has ended and none has failed: the accumulation begins
JobsJoined ==
    /\ pc = "jobs"
    /\ Len(completion) = Len(stm_files)
    /\ \A i \in 1..Len(stm_files) : JobOutcome(i).err = "none"
    /\ pc' = "merge"
    /\ UNCHANGED << permissive, langs_given, stm_files, error, sups, recos, recoids,
                    recos_i, sups_i, parsed, probed, result, cli, output_dir,
                    written, calls, completion, merge_i,
                    mixer6_vars, soapies_vars >>

\* every job has ended and one has failed: its failure fails the merge
JobFailed ==
    /\ pc = "jobs"
    /\ Len(completion) = Len(stm_files)
    /\ \E i \in 1..Len(stm_files) :
          /\ JobOutcome(i).err # "none"
          /\ \A k \in 1..(i - 1) : JobOutcome(k).err = "none"
          /\ error' = JobOutcome(i).err
    /\ pc' = "failed"
    /\ UNCHANGED << permissive, langs_given, stm_files, sups, recos, recoids,
                    recos_i, sups_i, parsed, probed, result, cli, output_dir,
                    written, calls, completion, merge_i,
                    mixer6_vars, soapies_vars >>

\* the result accumulated next, were the results taken as the jobs ended
NextToMergeAsCompleted == completion[merge_i + 1]

\* the result accumulated next: that of the next file of the list
NextToMerge == merge_i + 1

\* section 4.4 on the result of the next file
MergeNext ==
    /\ pc = "merge"
    /\ merge_i < Len(stm_files)
    /\ LET r == JobOutcome(NextToMerge)
       IN  /\ recos_i' = r.recordings
           /\ sups_i' = r.supervisions
           /\ sups' = AccumulateSupervisions(sups, r.supervisions)
           /\ recos' = AccumulateRecordings(recos, r.recordings, recoids)
           /\ recoids' = AccumulateIds(recoids, r.recordings)
    /\ merge_i' = merge_i + 1
    /\ UNCHANGED << permissive, langs_given, stm_files, pc, error, parsed, probed,
                    result, cli, output_dir, written, calls, completion,
                    mixer6_vars, soapies_vars >>

\* section 4.5 on the accumulated pair
FinishParallel ==
    /\ pc = "merge"
    /\ merge_i = Len(stm_files)
    /\ ReturnManifests

NextParallel == JobEnds \/ JobsJoined \/ JobFailed \/ MergeNext \/ FinishParallel

SpecParallel == InitParallel /\ [][NextParallel]_vars

----------------------------------------------------------------------------
(* What the run has read, for the statements below *)

\* the parse of each line of the model
Entries == [l \in DOMAIN AllText |-> ParseLine(AllText[l])] @@ << >>

FilesRead == { f \in 1..Len(stm_files) : stm_files[f].exists }

\* the places (file, line) of the entries the parser kept and the builder
\* passes beyond its duration check
Admitted ==
    { pl \in UNION { { << f, k >> : k \in 1..Len(stm_files[f].lines) } : f \in FilesRead } :
        LET r == Entries[stm_files[pl[1]].lines[pl[2]]]
        IN  r.status = "ok" /\ r.entry.end - r.entry.beg > MinDurationTicks }

EntryAt(pl) == Entries[stm_files[pl[1]].lines[pl[2]]].entry

\* the recording id lines 69 and 87 derive for each line the parser keeps
RecordingIds ==
    [l \in { l \in DOMAIN AllText : Entries[l].status = "ok" } |->
        RecordingId(Entries[l].entry.wav, Entries[l].entry.chn)] @@ << >>

\* the supervision id line 98 derives for each line the parser keeps, with
\* each target language
UttIds ==
    [l \in DOMAIN RecordingIds, tgt \in { lg[2] : lg \in AllLangs } |->
        UttId(Entries[l].entry, RecordingIds[l], tgt)] @@ << >>

\* the supervision id line 98 derives for the entry at a place
IdAt(pl) == UttIds[stm_files[pl[1]].lines[pl[2]], stm_files[pl[1]].tgt]

\* the supervisions accumulated before the last file
PriorSups == SubSeq(sups, 1, Len(sups) - Len(sups_i))

MissingFileError == "ValueError: does not exist"

Last10(s) == SubSeq(s, Len(s) - 9, Len(s))

\* the supervision of "call1 A spk1 1.000 3.500 <label> hello world"
FromScenario(x) == x.text = << Hello, World >> /\ x.start = 10000

\* a time in ticks, to the nearest millisecond
NearestMillis(t) == (t + 5) \div 10

----------------------------------------------------------------------------
(* C1: in a permissive run the de-duplication of supervision ids spans the *)
(* whole run: no id of the last file was emitted by an earlier file, and    *)
(* the accumulated supervisions never hold an id twice.                     *)
C1_DedupSpansRun ==
    permissive =>
        /\ IdsOf(PriorSups) \cap IdsOf(sups_i) = {}
        /\ ~HasDuplicateIds(sups)

(* C2: the accumulated recordings hold each recording id at most once, and  *)
(* every id a file contributed is held exactly once.                        *)
C2_RecordingIdsUnique ==
    /\ ~HasDuplicateIds(recos)
    /\ IdsOf(recos) = recoids

\* two files that both reference call1 channel 0 were accumulated
C2_Witness ==
    /\ pc = "loop"
    /\ Len(stm_files) = 2
    /\ \A f \in 1..2 : \E k \in 1..Len(stm_files[f].lines) :
          /\ << f, k >> \in Admitted
          /\ GroupKey(EntryAt(<< f, k >>)) = << Call1, 0 >>
    /\ Cardinality({ k \in 1..Len(recos) : recos[k].id = RecordingId(Call1, 0) }) = 1

(* C3: two entries read in a run whose (source_path, channel) differ derive *)
(* different recording ids.                                                 *)
C3_RecordingIdCollisionFree ==
    \A p1, p2 \in Admitted :
        GroupKey(EntryAt(p1)) # GroupKey(EntryAt(p2))
            => RecordingId(EntryAt(p1).wav, EntryAt(p1).chn)
                   # RecordingId(EntryAt(p2).wav, EntryAt(p2).chn)

(* C4: when prepare_stm returns, every supervision returned refers to a     *)
(* recording returned.                                                      *)
C4_SupervisionsResolve ==
    pc = "done" =>
        \A k \in 1..Len(result.supervisions) :
            result.supervisions[k].recording_id \in IdsOf(result.recordings)

\* a run returned supervisions of two recordings
C4_Witness ==
    /\ pc = "done"
    /\ Cardinality({ result.supervisions[k].recording_id :
                        k \in 1..Len(result.supervisions) }) = 2

(* C5: an entry shorter than 0.01 s yields no supervision in permissive     *)
(* mode and makes the run fail in strict mode.                              *)
C5_ShortDurationPolicy ==
    (\E f \in FilesRead : \E k \in 1..Len(stm_files[f].lines) :
         Entries[stm_files[f].lines[k]].status = "skip")
        => IF permissive
           THEN \A k \in 1..Len(sups) : sups[k].duration >= MinDurationTicks
           ELSE pc = "failed"

(* C6: when an entry of a file derives the supervision id of an earlier     *)
(* entry of that file, a strict run fails and a permissive run drops it.    *)
C6_DuplicateIdPolicy ==
    (\E p1, p2 \in Admitted :
         /\ p1[1] = p2[1] /\ p1[2] < p2[2]
         /\ stm_files[p1[1]].tgt # None
         /\ IdAt(p1) = IdAt(p2))
        => IF permissive
           THEN ~HasDuplicateIds(sups_i)
           ELSE pc = "failed"

C8_NoLanguagePairs ==
    ~langs_given =>
        /\ error # "TypeError"
        /\ \A k \in 1..Len(sups) :
              sups[k].id = JoinUnderscore(<< sups[k].speaker,
                                             NatToStr(sups[k].channel),
                                             sups[k].recording_id,
                                             BegStr(sups[k].start) >>)

(* C9, as claimed: the supervision of the line "call1 A spk1 1.000 3.500    *)
(* <label> hello world" has channel 0 and an id that ends in "0001000000".  *)
C9_BegStrAsClaimed ==
    \A k \in 1..Len(sups) :
        FromScenario(sups[k]) =>
            /\ sups[k].channel = 0
            /\ Last10(sups[k].id) = << "0", "0", "0", "1", "0", "0", "0", "0", "0", "0" >>

(* C9, amended: that supervision has channel 0 and an id that ends in       *)
(* "0000001000", and every supervision id ends in an underscore and ten     *)
(* digits that read as the start time in milliseconds, to the nearest.      *)
C9_BegStrIsMillis ==
    \A k \in 1..Len(sups) :
        /\ FromScenario(sups[k]) =>
              /\ sups[k].channel = 0
              /\ Last10(sups[k].id)
                     = << "0", "0", "0", "0", "0", "0", "1", "0", "0", "0" >>
        /\ Len(sups[k].id) > 10
        /\ sups[k].id[Len(sups[k].id) - 10] = "_"
        /\ AllDigits(Last10(sups[k].id))
        /\ 10 * StrToNat(Last10(sups[k].id)) - 5 < sups[k].start
        /\ sups[k].start < 10 * StrToNat(Last10(sups[k].id)) + 5

\* the scenario line and a line whose start is no whole millisecond were built
C9_Witness ==
    /\ \E k \in 1..Len(sups) : FromScenario(sups[k])
    /\ \E k \in 1..Len(sups) : sups[k].start % 10 # 0

(* C10, as claimed: for two supervisions of the same recording, id1 < id2   *)
(* exactly when start1 < start2.                                            *)
C10_IdOrderIsTimeOrder ==
    \A a, b \in 1..Len(sups) :
        sups[a].recording_id = sups[b].recording_id
            => (StrLess(sups[a].id, sups[b].id) <=> sups[a].start < sups[b].start)

(* C10, amended: for two supervisions of the same recording, the same       *)
(* speaker and the same target language, id1 < id2 exactly when start1,     *)
(* taken to the nearest millisecond, is less than start2.                   *)
C10_IdOrderIsTimeOrderPerSpeaker ==
    \A a, b \in 1..Len(sups) :
        /\ sups[a].recording_id = sups[b].recording_id
        /\ sups[a].speaker = sups[b].speaker
        /\ sups[a].language = sups[b].language
        => (StrLess(sups[a].id, sups[b].id)
                <=> NearestMillis(sups[a].start) < NearestMillis(sups[b].start))

\* two supervisions of one recording, speaker and language at different times
C10_Witness ==
    \E a, b \in 1..Len(sups) :
        /\ sups[a].recording_id = sups[b].recording_id
        /\ sups[a].speaker = sups[b].speaker
        /\ sups[a].language = sups[b].language
        /\ NearestMillis(sups[a].start) < NearestMillis(sups[b].start)
        /\ StrLess(sups[a].id, sups[b].id)

----------------------------------------------------------------------------
\* what line 145 did on the f-th file of the list
OutcomeOf(f) == PerFile[stm_files[f].lines, << stm_files[f].src, stm_files[f].tgt >>]

\* no earlier entry of the same file derives the id of the entry at pl
FirstOfItsId(pl) ==
    \A k \in 1..(pl[2] - 1) :
        << pl[1], k >> \in Admitted => IdAt(<< pl[1], k >>) # IdAt(pl)

\* the supervisions of a list that carry the id of the entry at pl
WithIdAt(pl, supervisions) ==
    { j \in 1..Len(supervisions) : supervisions[j].id = IdAt(pl) }

(* C11: every valid line longer than 0.01 s whose id is new in its file     *)
(* yields exactly one built supervision, of duration end - start and of     *)
(* start the parsed begin time; the line is lost only with the exception    *)
(* that ends the run, and a line that lies within its audio is still in the *)
(* accumulated supervisions with that duration.                             *)
C11_ValidLineYieldsOneSupervision ==
    \A pl \in Admitted :
        FirstOfItsId(pl) =>
            IF OutcomeOf(pl[1]).err # "none"
            THEN pc = "failed" /\ error = OutcomeOf(pl[1]).err
            ELSE LET built == OutcomeOf(pl[1]).built
                 IN  /\ Cardinality(WithIdAt(pl, built)) = 1
                     /\ \A j \in WithIdAt(pl, built) :
                           /\ built[j].duration = EntryAt(pl).end - EntryAt(pl).beg
                           /\ built[j].start = EntryAt(pl).beg
                     /\ EntryAt(pl).end <= AudioDuration(EntryAt(pl).wav)
                           => \E j \in WithIdAt(pl, sups) :
                                 /\ sups[j].duration = EntryAt(pl).end - EntryAt(pl).beg
                                 /\ sups[j].start = EntryAt(pl).beg

\* a file with "call1 0 spk1 0.5004 0.9 <label> bye" was accumulated: its
\* supervision starts at 0.5004 s and lasts 0.3996 s
C11_Witness ==
    /\ pc = "loop"
    /\ \E pl \in Admitted :
          /\ EntryAt(pl).beg = 5004
          /\ \E j \in WithIdAt(pl, sups) : sups[j].duration = 3996

----------------------------------------------------------------------------
\* the reconciler calls of k per-file calls that returned
RECURSIVE PerFileCalls(_)
PerFileCalls(k) ==
    IF k <= 0 THEN << >> ELSE PerFileCalls(k - 1) \o << FixCall, ValidateCall >>

CallsOf(fn) == { k \in 1..Len(calls) : calls[k][1] = fn }

(* C12: in a run of prepare_stm that returns, fix_manifests was called      *)
(* exactly once and the validation exactly once.                            *)
C12_ReconciledOnce ==
    pc = "done" =>
        /\ Cardinality(CallsOf("fix_manifests")) = 1
        /\ Cardinality(CallsOf("validate_recordings_and_supervisions")) = 1

(* C12, amended: each per-file call that returns has called fix_manifests   *)
(* and then the validation once on the pair of its file; at the end of the  *)
(* list both are called exactly once more, in that order, on the merged     *)
(* pair; a failed validation ends the run without a result.                 *)
C12_ReconciledPerFileAndOnceMerged ==
    /\ pc \in { "cli", "loop" } => calls = PerFileCalls(Len(stm_files))
    /\ pc = "done" =>
          calls = PerFileCalls(Len(stm_files)) \o << FixMerged, ValidateMerged >>
    /\ pc = "failed" /\ error # "ValidationError" =>
          calls = PerFileCalls(Len(stm_files) - 1)
    /\ error = "ValidationError" => pc = "failed" /\ result = NoResult
    /\ \A k \in CallsOf("validate_recordings_and_supervisions") :
          k > 1 /\ calls[k - 1] = << "fix_manifests", calls[k][2] >>

\* a run on two files that returned: three calls of each
C12_Witness ==
    /\ pc = "done"
    /\ Len(stm_files) = 2
    /\ Len(sups_i) > 0
    /\ Cardinality(CallsOf("fix_manifests")) = 3
    /\ calls[Len(calls)] = ValidateMerged

----------------------------------------------------------------------------
\* the last file the loop reached holds the line l
LastFileHolds(l) ==
    /\ Len(stm_files) > 0
    /\ \E k \in 1..Len(stm_files[Len(stm_files)].lines) :
          AllText[stm_files[Len(stm_files)].lines[k]] = l

(* C13: a run that fails wrote no file and returns no manifests; a file is  *)
(* written only by the run that accumulated every file and validated the    *)
(* merged pair, and then the two files of the run are written together.     *)
C13_NoPartialOutput ==
    /\ pc = "failed" => written = {} /\ result = NoResult
    /\ pc \in { "cli", "loop" } => written = {} /\ result = NoResult
    /\ written # {} =>
          /\ pc = "done"
          /\ output_dir # None
          /\ written = OutputFiles(Name)
          /\ result = Manifests
          /\ calls[Len(calls)] = ValidateMerged

\* the second file of a run with an output directory names an audio file
\* that cannot be read, after the first file contributed supervisions
C13_Witness ==
    /\ pc = "failed"
    /\ error = "AudioError"
    /\ output_dir = OutDir
    /\ Len(stm_files) = 2
    /\ Len(sups) > 0
    /\ LastFileHolds(LineGone)

----------------------------------------------------------------------------
\* a list, last element first
RECURSIVE Reverse(_)
Reverse(s) == IF Len(s) = 0 THEN << >> ELSE Append(Reverse(Tail(s)), Head(s))

\* the members of a collection
Members(items) == { items[k] : k \in 1..Len(items) }

(* C14: the run on the files [A, B] that returned and the run on [B, A]     *)
(* return recordings with the same members and supervisions with the same   *)
(* members.                                                                 *)
C14_FileOrderInsensitive ==
    pc = "done" /\ Len(stm_files) = 2 =>
        LET other == PrepareStm(Reverse(stm_files))
        IN  /\ other.err = "none"
            /\ Members(other.result.recordings) = Members(result.recordings)
            /\ Members(other.result.supervisions) = Members(result.supervisions)

----------------------------------------------------------------------------
(* C15: while the jobs run nothing is accumulated; the accumulation begins  *)
(* when every job has ended and takes the results in input file order, so   *)
(* that, in whatever order the jobs ended, the run returns what the         *)
(* sequential prepare_stm returns on the same list, and fails when it fails.*)
C15_ParallelEqualsSequential ==
    /\ pc = "jobs" => sups = << >> /\ recos = << >> /\ recoids = {} /\ merge_i = 0
    /\ pc \in { "merge", "done" } => Len(completion) = Len(stm_files)
    /\ pc = "merge" =>
          LET a == Accumulate(SubSeq(stm_files, 1, merge_i), 1, << >>, << >>, {})
          IN  a.err = "none" /\ a.sups = sups /\ a.recos = recos
    /\ pc = "done" =>
          /\ PrepareStm(stm_files).err = "none"
          /\ PrepareStm(stm_files).result = result
    /\ pc = "failed" =>
          /\ PrepareStm(stm_files).err = error
          /\ result = NoResult
          /\ sups = << >>

\* the job of the second file ended before the job of the first, and both
\* files contributed a recording to the manifests returned
C15_Witness ==
    /\ pc = "done"
    /\ Len(stm_files) >= 2
    /\ completion[1] = 2
    /\ Len(result.recordings) >= 2
    /\ result.recordings[1].id \in IdsOf(JobOutcome(1).recordings)
    /\ result.recordings[2].id \in IdsOf(JobOutcome(2).recordings)

----------------------------------------------------------------------------
(* C16: a run the command `stm` started on files that exist and are well    *)
(* formed ends having written exactly the two files of its prefix into the  *)
(* output directory.                                                        *)
C16_CommandWritesTheTwoFiles ==
    ( /\ cli
      /\ pc \in { "done", "failed" }
      /\ \A f \in 1..Len(stm_files) :
            stm_files[f].exists /\ OutcomeOf(f).err = "none" )
        => pc = "done" /\ written = OutputFiles(Name)

----------------------------------------------------------------------------
(* C17: an entry the grouper was given is an entry the builder admits: in a *)
(* file whose per-file call returned, every recording the grouper made for  *)
(* a group of entries has a supervision the builder made of that group.     *)
C17_DurationCheckedOnce ==
    \A f \in FilesRead :
        OutcomeOf(f).err = "none" =>
            \A g \in 1..Len(OutcomeOf(f).grouped) :
                \E b \in 1..Len(OutcomeOf(f).built) :
                    OutcomeOf(f).built[b].recording_id = OutcomeOf(f).grouped[g].id

----------------------------------------------------------------------------
\* the ids of a collection, in its order
IdSeq(items) == [k \in 1..Len(items) |-> items[k].id]

RecordingIdAt(pl) == RecordingIds[stm_files[pl[1]].lines[pl[2]]]

\* the place pl comes before the place ql in the run
Before(pl, ql) == pl[1] < ql[1] \/ (pl[1] = ql[1] /\ pl[2] < ql[2])

\* the entry at pl is the first of the run that refers to its recording
FirstOfItsRecording(pl) ==
    \A ql \in Admitted : Before(ql, pl) => RecordingIdAt(ql) # RecordingIdAt(pl)

\* the supervision ids, then the recording ids, that the entries from line k
\* of file f on contribute, in the order of the lines
RECURSIVE SupervisionIdsFrom(_, _)
SupervisionIdsFrom(f, k) ==
    IF f > Len(stm_files) THEN << >>
    ELSE IF k > Len(stm_files[f].lines) THEN SupervisionIdsFrom(f + 1, 1)
    ELSE IF << f, k >> \in Admitted /\ FirstOfItsId(<< f, k >>)
    THEN << IdAt(<< f, k >>) >> \o SupervisionIdsFrom(f, k + 1)
    ELSE SupervisionIdsFrom(f, k + 1)

RECURSIVE RecordingIdsFrom(_, _)
RecordingIdsFrom(f, k) ==
    IF f > Len(stm_files) THEN << >>
    ELSE IF k > Len(stm_files[f].lines) THEN RecordingIdsFrom(f + 1, 1)
    ELSE IF << f, k >> \in Admitted /\ FirstOfItsRecording(<< f, k >>)
    THEN << RecordingIdAt(<< f, k >>) >> \o RecordingIdsFrom(f, k + 1)
    ELSE RecordingIdsFrom(f, k + 1)

\* the first file of the list whose per-file pair holds the recording id
FirstFileWith(id) ==
    CHOOSE f \in FilesRead :
        /\ id \in IdsOf(OutcomeOf(f).recordings)
        /\ \A g \in FilesRead : id \in IdsOf(OutcomeOf(g).recordings) => f <= g

(* C18: while the files are accumulated, the accumulated supervisions and   *)
(* the accumulated recordings are in the order of the files and, within a   *)
(* file, in the order of the lines that produced them.                      *)
C18_FileOrderThenLineOrder ==
    pc = "loop" =>
        /\ IdSeq(sups) = SupervisionIdsFrom(1, 1)
        /\ IdSeq(recos) = RecordingIdsFrom(1, 1)

(* C18, amended: the accumulated supervisions are in the order of the files *)
(* and, within a file, of the lines; the accumulated recordings are in the  *)
(* order of the files that first contributed them and, within a file, in    *)
(* the ascending order of their (source path, channel).                     *)
C18_FileOrderThenLineOrKeyOrder ==
    pc = "loop" =>
        /\ IdSeq(sups) = SupervisionIdsFrom(1, 1)
        /\ IdsOf(recos) = { RecordingIdAt(pl) : pl \in Admitted }
        /\ \A k, m \in 1..Len(recos) :
              k < m =>
                  \/ FirstFileWith(recos[k].id) < FirstFileWith(recos[m].id)
                  \/ /\ FirstFileWith(recos[k].id) = FirstFileWith(recos[m].id)
                     /\ KeyLess(<< recos[k].path, recos[k].channel_ids[1] >>,
                                << recos[m].path, recos[m].channel_ids[1] >>)

\* a file whose first line is on channel 1 of call1 and whose second line is
\* on channel 0: the supervisions follow the lines, the recordings the keys
C18_Witness ==
    /\ pc = "loop"
    /\ Len(stm_files) = 1
    /\ Len(sups) = 2
    /\ Len(recos) = 2
    /\ sups[1].channel = 1 /\ sups[2].channel = 0
    /\ recos[1].channel_ids = << 0 >> /\ recos[2].channel_ids = << 1 >>

----------------------------------------------------------------------------
\* the parser raised on no line of the f-th file
Parses(f) ==
    \A k \in 1..Len(stm_files[f].lines) : Entries[stm_files[f].lines[k]].status # "error"

\* the (source path, channel) keys of the entries the parser kept of file f
KeysOf(f) ==
    { GroupKey(Entries[stm_files[f].lines[k]].entry) :
        k \in { k \in 1..Len(stm_files[f].lines) :
                  Entries[stm_files[f].lines[k]].status = "ok" } }

\* every audio file the entries of file f name can be read
Readable(f) == \A key \in KeysOf(f) : ~ProbeRaises(key[1])

\* the contents that hold the lines of c in another order
Reorderings(c) ==
    { d \in [1..Len(c) -> Members(c)] :
        \A l \in Members(c) :
            Cardinality({ k \in 1..Len(c) : d[k] = l })
                = Cardinality({ k \in 1..Len(c) : c[k] = l }) }

(* C19: for the file read last, when the parser accepts it and its audio    *)
(* can be read, the audio is probed once for each (source path, channel) of *)
(* its entries and the list of recordings holds one recording for each,     *)
(* restricted to that channel; the supervisions of the entries of one key   *)
(* all refer to that recording; and the lines in any other order yield the  *)
(* same probes and the same list of recordings.                             *)
C19_GroupingIgnoresLineOrder ==
    \A f \in FilesRead \cap { Len(stm_files) } :
        pc # "done" /\ Parses(f) /\ Readable(f) =>
            LET o == OutcomeOf(f)
            IN  /\ o.probed = Cardinality(KeysOf(f))
                /\ Len(o.grouped) = Cardinality(KeysOf(f))
                /\ \A key \in KeysOf(f) :
                      \E g \in 1..Len(o.grouped) :
                          /\ o.grouped[g].path = key[1]
                          /\ o.grouped[g].channel_ids = << key[2] >>
                          /\ o.grouped[g].id = RecordingId(key[1], key[2])
                /\ \A k \in 1..Len(stm_files[f].lines) :
                      << f, k >> \in Admitted =>
                          \A j \in WithIdAt(<< f, k >>, o.built) :
                              o.built[j].recording_id = RecordingIdAt(<< f, k >>)
                /\ \A d \in Reorderings(stm_files[f].lines) :
                      LET q == PerFile[d, << stm_files[f].src, stm_files[f].tgt >>]
                      IN  q.probed = o.probed /\ q.grouped = o.grouped

\* a file of two entries of call1 channel 0: one probe, one recording, and
\* two supervisions that refer to it
C19_Witness ==
    /\ pc = "loop"
    /\ Len(stm_files) = 1
    /\ Len(stm_files[1].lines) = 2
    /\ probed = 1
    /\ Len(recos_i) = 1
    /\ Len(sups_i) = 2
    /\ sups_i[1].recording_id = recos_i[1].id
    /\ sups_i[2].recording_id = recos_i[1].id

----------------------------------------------------------------------------
(* C20: two entries of a run that derive the same supervision id agree on   *)
(* their speaker, channel, source path, target language and start time.     *)
C20_SupervisionIdInjective ==
    \A p1, p2 \in Admitted :
        ( /\ stm_files[p1[1]].tgt # None
          /\ stm_files[p2[1]].tgt # None
          /\ IdAt(p1) = IdAt(p2) )
            => /\ EntryAt(p1).spk = EntryAt(p2).spk
               /\ EntryAt(p1).chn = EntryAt(p2).chn
               /\ EntryAt(p1).wav = EntryAt(p2).wav
               /\ stm_files[p1[1]].tgt = stm_files[p2[1]].tgt
               /\ EntryAt(p1).beg = EntryAt(p2).beg

----------------------------------------------------------------------------
(* prepare_mixer6 (lhotse/recipes/mixer6.py)                               *)

\* the state of prepare_stm and of prepare_stm_parallel
stm_vars == << permissive, langs_given, stm_files, sups, recos, recoids,
               recos_i, sups_i, parsed, probed, cli, completion, merge_i >>

\* no call of prepare_stm is under way
NoStm ==
    /\ permissive = TRUE
    /\ langs_given = FALSE
    /\ stm_files = << >>
    /\ sups = << >>
    /\ recos = << >>
    /\ recoids = {}
    /\ recos_i = << >>
    /\ sups_i = << >>
    /\ parsed = 0
    /\ probed = 0
    /\ cli = FALSE
    /\ completion = << >>
    /\ merge_i = 0

\* the session ids of the model
SessionIds == { << "s", "1" >>, << "s", "2" >> }

\* the values the argument `channels` is made of
ChannelValues == { 0, 1 }

\* the lines of the session list, as l.strip().split('\t') yields them:
\* session id, "subject,interviewer" split at the comma, room; the last line
\* lacks the room
SessionLines ==
    { << << "s", "1" >>, << Spk1, Spk2 >>, << "A" >> >>,
      << << "s", "2" >>, << Spk2, Spk1 >>, << "B" >> >>,
      << << "s", "2" >>, << Spk1, Spk2 >> >> }

\* lines 39-40: the unpacking of a line and of its speakers raises ValueError
\* unless there are three fields and two speakers
SessionLineOk(l) == Len(l) = 3 /\ Len(l[2]) = 2

\* lines 36-41: the keys of the dict sessions, in the order of their first
\* insertion, after the lines given
RECURSIVE SessionKeys(_, _)
SessionKeys(lines, acc) ==
    IF Len(lines) = 0 THEN acc
    ELSE LET session_id == Head(lines)[1]
         IN  SessionKeys(Tail(lines),
                 IF \E k \in 1..Len(acc) : acc[k] = session_id
                 THEN acc ELSE Append(acc, session_id))

\* lines 47-48
chnid2name(i) == << "C", "H" >> \o ZeroPad(NatToStr(i + 1), 2)

\* lines 51 and 80: the path of the audio of a session and a channel, below
\* the directory pcm_files
FlacPath(session_id, i) ==
    chnid2name(i) \o << "/" >> \o session_id \o << "_" >> \o chnid2name(i)
        \o << ".", "f", "l", "a", "c" >>

\* the paths of the audio of the model, computed once
FlacPaths == [s \in SessionIds, c \in ChannelValues |-> FlacPath(s, c)] @@ << >>

\* Path.is_file of lines 56 and 81
is_file(p) == p \in pcm_files

\* line 52: the length soundfile reports for every audio file of the model,
\* in ticks
SoundFileDuration == 40000

\* lines 55-57: the sources of the recording of a session
RECURSIVE Sources(_, _)
Sources(session_id, chans) ==
    IF Len(chans) = 0 THEN << >>
    ELSE LET c == Head(chans)
             p == FlacPaths[session_id, c]
         IN  (IF is_file(p)
              THEN << [type |-> "file", channels |-> << c >>, source |-> p] >>
              ELSE << >>) \o Sources(session_id, Tail(chans))

\* lines 53-61
Mixer6Recording(session_id) ==
    [id       |-> session_id,
     sources  |-> Sources(session_id, channels),
     duration |-> SoundFileDuration]

\* the segments of the transcripts of the model: speaker, words, start_time
\* and end_time as the json holds them; the second one lasts 0.01 s
Segs ==
    { [speaker |-> Spk1, words |-> << Hello, World >>,
       start_time |-> << "1", ".", "0" >>, end_time |-> << "3", ".", "5" >>],
      [speaker |-> Spk1, words |-> << Hello >>,
       start_time |-> << "2", ".", "5" >>,
       end_time |-> << "2", ".", "5", "1" >>] }

\* the threshold 0.01 s of line 76, in ticks
Mixer6MinDurationTicks == 100

\* line 76
TooShort(seg) ==
    FloatTicks(seg.end_time) - FloatTicks(seg.start_time) <= Mixer6MinDurationTicks

\* lines 73-75 and 83-92: the supervision of a segment on a channel
Mixer6Segment(session_id, seg, chn) ==
    LET start  == FloatTicks(seg.start_time)
        end    == FloatTicks(seg.end_time)
        begstr == ZeroPad(NatToStr(StrToNat(RemoveDots(Format3f(start)))), 8)
    IN  [id           |-> seg.speaker \o << "-" >> \o session_id \o << "-" >>
                              \o chnid2name(chn) \o << "-" >> \o begstr,
         recording_id |-> session_id,
         start        |-> start,
         duration     |-> end - start,
         channel      |-> chn,
         language     |-> << "E", "n", "g", "l", "i", "s", "h" >>,
         speaker      |-> seg.speaker,
         text         |-> seg.words]

\* the supervisions of the model, computed once
Mixer6Segments ==
    [s \in SessionIds, seg \in Segs, c \in ChannelValues |->
        Mixer6Segment(s, seg, c)] @@ << >>

\* lines 79-81 without the test of line 81
ChannelsUnguarded(session_id, chans) == chans

\* lines 79-81: the channels of the list whose audio file exists
ChannelsWithAudio(session_id, chans) ==
    SelectSeq(chans, LAMBDA chn : is_file(FlacPaths[session_id, chn]))

\* lines 79-93 for one segment
SegmentSupervisions(session_id, seg) ==
    LET chans == ChannelsWithAudio(session_id, channels)
    IN  [k \in 1..Len(chans) |-> Mixer6Segments[session_id, seg, chans[k]]]

\* lines 72-93: the supervisions of the segments of one transcript, up to the
\* segment that raises at line 77 if there is one
RECURSIVE TranscriptSupervisions(_, _)
TranscriptSupervisions(session_id, transcript) ==
    IF Len(transcript) = 0 THEN << >>
    ELSE IF TooShort(Head(transcript)) THEN << >>
    ELSE SegmentSupervisions(session_id, Head(transcript))
             \o TranscriptSupervisions(session_id, Tail(transcript))

\* line 76 holding of a segment of the transcript
TranscriptRaises(transcript) ==
    \E k \in 1..Len(transcript) : TooShort(transcript[k])

\* lines 20-32: the call of prepare_mixer6 on a corpus directory and a part
\* that pass the assertions
InitMixer6 ==
    /\ channels \in UNION { [1..n -> ChannelValues] : n \in 0..MaxChannels }
    /\ pcm_files \in SUBSET { FlacPaths[x] : x \in DOMAIN FlacPaths }
    /\ output_dir \in { None, OutDir }
    /\ pc = "sessions"
    /\ error = "none"
    /\ sessions = << >>
    /\ transcripts = << >>
    /\ m6_recordings = << >>
    /\ m6_supervisions = << >>
    /\ result = NoResult
    /\ written = {}
    /\ calls = << >>
    /\ NoStm
    /\ NoSoapies

\* lines 35-41, every line of the list being well formed
ReadSessionList ==
    /\ pc = "sessions"
    /\ \E list \in UNION { [1..n -> SessionLines] : n \in 0..MaxSessions } :
          /\ \A k \in 1..Len(list) : SessionLineOk(list[k])
          /\ sessions' = SessionKeys(list, << >>)
    /\ pc' = "recordings"
    /\ UNCHANGED << error, result, output_dir, written, calls, channels, pcm_files,
                    transcripts, m6_recordings, m6_supervisions, stm_vars,
                    soapies_vars >>

\* lines 35-41, a line of the list raising ValueError at line 39 or 40
ReadSessionListRaises ==
    /\ pc = "sessions"
    /\ \E list \in UNION { [1..n -> SessionLines] : n \in 0..MaxSessions } :
          /\ \E k \in 1..Len(list) : ~SessionLineOk(list[k])
          /\ LET bad == CHOOSE k \in 1..Len(list) :
                            /\ ~SessionLineOk(list[k])
                            /\ \A m \in 1..(k - 1) : SessionLineOk(list[m])
             IN  sessions' = SessionKeys(SubSeq(list, 1, bad - 1), << >>)
    /\ pc' = "failed"
    /\ error' = "ValueError"
    /\ UNCHANGED << result, output_dir, written, calls, channels, pcm_files,
                    transcripts, m6_recordings, m6_supervisions, stm_vars,
                    soapies_vars >>

\* lines 50-62 for the next session of the dict
MakeRecording ==
    /\ pc = "recordings"
    /\ Len(m6_recordings) < Len(sessions)
    /\ Len(channels) > 0
    /\ LET session_id == sessions[Len(m6_recordings) + 1]
       IN  /\ is_file(FlacPaths[session_id, channels[1]])
           /\ m6_recordings' = Append(m6_recordings, Mixer6Recording(session_id))
    /\ UNCHANGED << pc, error, result, output_dir, written, calls, channels,
                    sessions, pcm_files, transcripts, m6_supervisions, stm_vars,
                    soapies_vars >>

\* lines 51-52 raising for the next session: paths[0] of an empty list, or
\* soundfile opening the audio of the first channel, which is missing
MakeRecordingRaises ==
    /\ pc = "recordings"
    /\ Len(m6_recordings) < Len(sessions)
    /\ LET session_id == sessions[Len(m6_recordings) + 1]
       IN  \/ /\ Len(channels) = 0
              /\ error' = "IndexError"
           \/ /\ Len(channels) > 0
              /\ ~is_file(FlacPaths[session_id, channels[1]])
              /\ error' = "SoundFileError"
    /\ pc' = "failed"
    /\ UNCHANGED << result, output_dir, written, calls, channels, sessions,
                    pcm_files, transcripts, m6_recordings, m6_supervisions,
                    stm_vars, soapies_vars >>

\* line 62 to line 65: the loop over the sessions is over
RecordingsMade ==
    /\ pc = "recordings"
    /\ Len(m6_recordings) = Len(sessions)
    /\ pc' = "supervisions"
    /\ UNCHANGED << error, result, output_dir, written, calls, mixer6_vars,
                    stm_vars, soapies_vars >>

\* the number of segments of the transcripts read
RECURSIVE SegmentsRead(_)
SegmentsRead(files) ==
    IF Len(files) = 0 THEN 0
    ELSE Len(Head(files).transcript) + SegmentsRead(Tail(files))

\* lines 66-71: the transcript file the loop may reach next, named after any
\* session id
NextTranscripts ==
    { [session_id |-> s, transcript |-> t] :
        s \in SessionIds,
        t \in UNION { [1..n -> Segs] :
                        n \in 0..(MaxSegments - SegmentsRead(transcripts)) } }

\* lines 68-93 for the next transcript, none of its segments being too short
ReadTranscript ==
    /\ pc = "supervisions"
    /\ Len(transcripts) < MaxTranscripts
    /\ \E fname \in NextTranscripts :
          /\ ~TranscriptRaises(fname.transcript)
          /\ transcripts' = Append(transcripts, fname)
          /\ m6_supervisions' = m6_supervisions
                 \o TranscriptSupervisions(fname.session_id, fname.transcript)
    /\ UNCHANGED << pc, error, result, output_dir, written, calls, channels,
                    sessions, pcm_files, m6_recordings, stm_vars, soapies_vars >>

\* lines 68-93 for the next transcript, one of its segments raising at line 77
ReadTranscriptRaises ==
    /\ pc = "supervisions"
    /\ Len(transcripts) < MaxTranscripts
    /\ \E fname \in NextTranscripts :
          /\ TranscriptRaises(fname.transcript)
          /\ transcripts' = Append(transcripts, fname)
          /\ m6_supervisions' = m6_supervisions
                 \o TranscriptSupervisions(fname.session_id, fname.transcript)
    /\ pc' = "failed"
    /\ error' = "ValueError"
    /\ UNCHANGED << result, output_dir, written, calls, channels, sessions,
                    pcm_files, m6_recordings, stm_vars, soapies_vars >>

\* lines 95-106, the supervision ids being unique
ReconcileMixer6 ==
    /\ pc = "supervisions"
    /\ FromItemsRaises(m6_supervisions) = FALSE
    /\ LET fixed == FixManifests(m6_recordings, m6_supervisions)
       IN  /\ Validates(fixed.recordings, fixed.supervisions)
           /\ result' = [recordings   |-> fixed.recordings,
                         supervisions |-> fixed.supervisions]
    /\ calls' = calls \o << FixMerged, ValidateMerged >>
    /\ written' = IF output_dir # None
                  THEN { << "r", "e", "c", "o", "r", "d", "i", "n", "g", "s" >>,
                         << "s", "u", "p", "e", "r", "v", "i", "s", "i", "o", "n", "s" >> }
                  ELSE written
    /\ pc' = "done"
    /\ UNCHANGED << error, output_dir, mixer6_vars, stm_vars, soapies_vars >>

\* lines 95-96 raising: two supervisions of one id at line 96 (what
\* fix_manifests returns passes the validation of line 98)
ReconcileMixer6Raises ==
    /\ pc = "supervisions"
    /\ FromItemsRaises(m6_supervisions) = TRUE
    /\ error' = "DuplicateIdError"
    /\ pc' = "failed"
    /\ UNCHANGED << result, output_dir, written, calls, mixer6_vars, stm_vars,
                    soapies_vars >>

NextMixer6 ==
    \/ ReadSessionList
    \/ ReadSessionListRaises
    \/ MakeRecording
    \/ MakeRecordingRaises
    \/ RecordingsMade
    \/ ReadTranscript
    \/ ReadTranscriptRaises
    \/ ReconcileMixer6
    \/ ReconcileMixer6Raises

SpecMixer6 == InitMixer6 /\ [][NextMixer6]_vars

----------------------------------------------------------------------------
(* prepare_mixer6: the channels of the supervisions and of the sources *)

\* the recordings built for a session id
RecordingsOf(session_id) ==
    { k \in 1..Len(m6_recordings) : m6_recordings[k].id = session_id }

\* how many sources of a recording are of channel c
SourcesOfChannel(reco, c) ==
    Cardinality({ k \in 1..Len(reco.sources) : reco.sources[k].channels = << c >> })

\* how many supervisions were built for a session and a channel
SupervisionsOfChannel(session_id, c) ==
    Cardinality({ k \in 1..Len(m6_supervisions) :
                    /\ m6_supervisions[k].recording_id = session_id
                    /\ m6_supervisions[k].channel = c })

\* the segments of a transcript the loop of line 72 went through without
\* raising
RECURSIVE SegmentsPassed(_)
SegmentsPassed(transcript) ==
    IF Len(transcript) = 0 \/ TooShort(Head(transcript)) THEN 0
    ELSE 1 + SegmentsPassed(Tail(transcript))

\* the segments passed in the transcripts read that are named after a session
RECURSIVE SegmentsPassedOf(_, _)
SegmentsPassedOf(session_id, files) ==
    IF Len(files) = 0 THEN 0
    ELSE (IF Head(files).session_id = session_id
          THEN SegmentsPassed(Head(files).transcript) ELSE 0)
         + SegmentsPassedOf(session_id, Tail(files))

(* C21: in prepare_mixer6, before the reconciliation, every supervision    *)
(* built for a session that has a recording carries a channel of one of    *)
(* the audio sources of that recording; and for every segment read of such *)
(* a session and every channel c, a supervision of channel c was built for *)
(* the segment exactly when the recording has a source of channel c (as    *)
(* many supervisions as the recording has sources of that channel).        *)
C21_SupervisionChannelsAreSourceChannels ==
    /\ \A k \in 1..Len(m6_supervisions) :
          \A r \in RecordingsOf(m6_supervisions[k].recording_id) :
              \E m \in 1..Len(m6_recordings[r].sources) :
                  m6_recordings[r].sources[m].channels
                      = << m6_supervisions[k].channel >>
    /\ \A r \in 1..Len(m6_recordings) : \A c \in ChannelValues :
          SupervisionsOfChannel(m6_recordings[r].id, c)
              = SegmentsPassedOf(m6_recordings[r].id, transcripts)
                    * SourcesOfChannel(m6_recordings[r], c)

\* a session was recorded with the audio of one channel of the list missing,
\* and a segment of its transcript has been read: it has a supervision on
\* the channel that has audio and none on the other
C21_Witness ==
    /\ pc = "supervisions"
    /\ \E r \in 1..Len(m6_recordings) :
          \E c, d \in { channels[k] : k \in 1..Len(channels) } :
              /\ SourcesOfChannel(m6_recordings[r], c) = 1
              /\ SourcesOfChannel(m6_recordings[r], d) = 0
              /\ SegmentsPassedOf(m6_recordings[r].id, transcripts) > 0
              /\ SupervisionsOfChannel(m6_recordings[r].id, c) > 0
              /\ SupervisionsOfChannel(m6_recordings[r].id, d) = 0

----------------------------------------------------------------------------
(* prepare_single_soapy_language (lhotse/recipes/soapies.py), called with  *)
(* one of the languages of lang_shortname                                  *)

\* Path(p).stem: the last component of the path without its last suffix
Stem(p) ==
    LET name == SubSeq(p, LastIndexOf(p, "/") + 1, Len(p))
        dot  == LastIndexOf(name, ".")
    IN  IF 1 < dot /\ dot < Len(name) THEN SubSeq(name, 1, dot - 1) ELSE name

\* line.strip()
RECURSIVE Strip(_)
Strip(line) ==
    IF Len(line) = 0 THEN line
    ELSE IF Head(line) \in { " ", "\n" } THEN Strip(Tail(line))
    ELSE IF line[Len(line)] \in { " ", "\n" }
         THEN Strip(SubSeq(line, 1, Len(line) - 1))
    ELSE line

\* lines 169-174 and 178-183: the ids of the lines of a list that are in ids
ListedIds(lines, ids) ==
    { Strip(lines[k]) : k \in 1..Len(lines) } \cap ids

\* lines 185-189 with the test ids left in
TrainIdsKeepingTest(ids, dev, test) == ids \ dev

\* lines 185-189
TrainIds(ids, dev, test) == { uttid \in ids : ~(uttid \in dev \/ uttid \in test) }

\* lines 199-221 for one split: the recordings and the segments of the
\* utterances of the xml file whose id is in ids, in the order of the file
SplitManifest(ids) ==
    LET kept == SelectSeq(xml, LAMBDA wav : Stem(wav) \in ids)
    IN  [recordings |-> [k \in 1..Len(kept) |->
                            [id |-> Stem(kept[k]), duration |-> AudioDuration(kept[k])]],
         segments   |-> [k \in 1..Len(kept) |->
                            [id           |-> Stem(kept[k]),
                             recording_id |-> Stem(kept[k]),
                             start        |-> 0,
                             duration     |-> AudioDuration(kept[k]),
                             channel      |-> 0]],
         missing    |-> \E k \in 1..Len(kept) : kept[k] \notin wavdir]

\* lines 152-160: the call
InitSoapies ==
    /\ pc = "audio"
    /\ error = "none"
    /\ output_dir \in { None, OutDir }
    /\ result = NoResult
    /\ written = {}
    /\ calls = << >>
    /\ NoSoapies
    /\ NoStm
    /\ NoMixer6

\* lines 162-165: the ids of the files of the audio directory that match *wav
ReadAudioDir ==
    /\ pc = "audio"
    /\ \E dir \in SUBSET { << "a", ".", "w", "a", "v" >>,
                          << "b", ".", "w", "a", "v" >>,
                          << "c", ".", "t", "x", "t" >> } :
          /\ wavdir' = dir
          /\ uttids' = { Stem(fname) : fname \in
                           { f \in dir : /\ Len(f) >= 3
                                         /\ SubSeq(f, Len(f) - 2, Len(f))
                                                = << "w", "a", "v" >> } }
    /\ pc' = "dev"
    /\ UNCHANGED << error, result, output_dir, written, calls, dev_list,
                    test_list, xml, dev_uttids, test_uttids, train_uttids,
                    manifests, stm_vars, mixer6_vars >>

\* the lines an utterance-id list of the model may hold, or None when the
\* file is missing
IdLists ==
    { None } \cup
    UNION { [1..n -> { << "a", "\n" >>, << " ", "b", "\n" >>, << "c", "\n" >> }] :
              n \in 0..MaxListLines }

\* lines 167-174
ReadDevList ==
    /\ pc = "dev"
    /\ \E list \in IdLists :
          /\ dev_list' = list
          /\ IF list = None
             THEN /\ pc' = "failed"
                  /\ error' = "FileNotFoundError"
                  /\ dev_uttids' = dev_uttids
             ELSE /\ pc' = "test"
                  /\ error' = error
                  /\ dev_uttids' = ListedIds(list, uttids)
    /\ UNCHANGED << result, output_dir, written, calls, wavdir, test_list, xml,
                    uttids, test_uttids, train_uttids, manifests, stm_vars,
                    mixer6_vars >>

\* lines 176-183
ReadTestList ==
    /\ pc = "test"
    /\ \E list \in IdLists :
          /\ test_list' = list
          /\ IF list = None
             THEN /\ pc' = "failed"
                  /\ error' = "FileNotFoundError"
                  /\ test_uttids' = test_uttids
             ELSE /\ pc' = "train"
                  /\ error' = error
                  /\ test_uttids' = ListedIds(list, uttids)
    /\ UNCHANGED << result, output_dir, written, calls, wavdir, dev_list, xml,
                    uttids, dev_uttids, train_uttids, manifests, stm_vars,
                    mixer6_vars >>

\* lines 185-196: the train ids, then the xml file is parsed
MakeTrain ==
    /\ pc = "train"
    /\ train_uttids' = TrainIds(uttids, dev_uttids, test_uttids)
    /\ xml' \in { << >>,
                  << << "b", ".", "w", "a", "v" >>, << "a", ".", "w", "a", "v" >> >>,
                  << << "a", ".", "w", "a", "v" >>, << "a", ".", "w", "a", "v" >> >>,
                  << << "a", ".", "m", "p", "3" >> >> }
    /\ pc' = "splits"
    /\ UNCHANGED << error, result, output_dir, written, calls, wavdir, dev_list,
                    test_list, uttids, dev_uttids, test_uttids, manifests,
                    stm_vars, mixer6_vars >>

\* lines 197-247 for the next split of train, dev, test: the loop variable
\* uttids takes the ids of the split; Recording.from_file raises on a missing
\* audio file and RecordingSet.from_recordings on two recordings of one id;
\* lines 227-230 remove and trim as fix_manifests does
BuildSplit ==
    /\ pc = "splits"
    /\ Len(manifests) < 3
    /\ LET split == << "train", "dev", "test" >>[Len(manifests) + 1]
           ids   == << train_uttids, dev_uttids, test_uttids >>[Len(manifests) + 1]
           built == SplitManifest(ids)
           fixed == FixManifests(built.recordings, built.segments)
       IN  /\ uttids' = ids
           /\ IF built.missing
              THEN /\ pc' = "failed"
                   /\ error' = "AudioError"
                   /\ UNCHANGED << manifests, written >>
              ELSE IF FromItemsRaises(built.recordings)
              THEN /\ pc' = "failed"
                   /\ error' = "DuplicateIdError"
                   /\ UNCHANGED << manifests, written >>
              ELSE /\ pc' = pc
                   /\ error' = error
                   /\ manifests' = Append(manifests,
                          [split        |-> split,
                           recordings   |-> fixed.recordings,
                           supervisions |-> fixed.supervisions])
                   /\ written' = IF output_dir # None
                                 THEN written \cup { << "recordings", split >>,
                                                     << "supervisions", split >> }
                                 ELSE written
    /\ UNCHANGED << result, output_dir, calls, wavdir, dev_list, test_list, xml,
                    dev_uttids, test_uttids, train_uttids, stm_vars, mixer6_vars >>

\* line 249
ReturnSoapies ==
    /\ pc = "splits"
    /\ Len(manifests) = 3
    /\ pc' = "done"
    /\ UNCHANGED << error, result, output_dir, written, calls, soapies_vars,
                    stm_vars, mixer6_vars >>

NextSoapies ==
    \/ ReadAudioDir
    \/ ReadDevList
    \/ ReadTestList
    \/ MakeTrain
    \/ BuildSplit
    \/ ReturnSoapies

SpecSoapies == InitSoapies /\ [][NextSoapies]_vars

----------------------------------------------------------------------------
(* prepare_single_soapy_language: the three sets of utterance ids *)

\* the utterance ids that have an audio file: the stems of the files of the
\* audio directory whose name ends in wav
AudioIds ==
    { Stem(f) : f \in { g \in wavdir : /\ Len(g) >= 3
                                       /\ SubSeq(g, Len(g) - 2, Len(g))
                                              = << "w", "a", "v" >> } }

\* the ids a list names
NamedIn(list) == { Strip(list[k]) : k \in 1..Len(list) }

(* C22: in prepare_single_soapy_language the train, dev and test           *)
(* utterance-id sets form a partition of the utterance ids that have an    *)
(* audio file, for any contents of the dev and test id lists: the three    *)
(* sets are pairwise disjoint and their union is the set of audio ids.     *)
C22_SplitsPartitionAudioIds ==
    pc \in { "splits", "done" } =>
        /\ train_uttids \cap dev_uttids = {}
        /\ train_uttids \cap test_uttids = {}
        /\ dev_uttids \cap test_uttids = {}
        /\ train_uttids \cup dev_uttids \cup test_uttids = AudioIds

(* C22 as amended: the union of the three sets is the set of audio ids and *)
(* the train set is disjoint from the dev set and from the test set, for   *)
(* any contents of the lists; the dev and test sets share exactly the      *)
(* audio ids that both lists name.                                         *)
C22_TrainIsTheRestOfDevAndTest ==
    pc \in { "splits", "done" } =>
        /\ train_uttids \cap dev_uttids = {}
        /\ train_uttids \cap test_uttids = {}
        /\ train_uttids \cup dev_uttids \cup test_uttids = AudioIds
        /\ dev_uttids \cap test_uttids
               = AudioIds \cap NamedIn(dev_list) \cap NamedIn(test_list)

\* the three sets are built and none is empty: the dev and test lists name
\* one audio id both, another audio id is in neither list
C22_Witness ==
    /\ pc = "splits"
    /\ train_uttids # {}
    /\ dev_uttids \cap test_uttids # {}

====
